---- MODULE Spec2Model ----
(***************************************************************************)
(* Model of Server/lib/hud_renderer.py: the telemetry normalizer           *)
(* (pick_number, normalize_gear, normalize_autopilot), the temporal        *)
(* smoother HudRenderState and the frame composer create_hud_frame.        *)
(*                                                                         *)
(* Numbers.  Python floats are modelled in fixed point: a finite number is *)
(* an integer count of thousandths (Milli), so 0.5 is 500 and 540 degrees  *)
(* is 540000.  The non-finite floats inf, -inf and nan are separate kinds. *)
(* Times are counted in ticks of 1/TicksPerMs millisecond so that the      *)
(* frame period 1000/30 ms is exact.                                       *)
(* Strings are sequences of one-character strings.                         *)
(***************************************************************************)
EXTENDS Integers, Sequences, FiniteSets, TLC

VARIABLES
    frame_rate, frame_dt_ms, elapsed_ms,
    steer_initialized, steer_target_deg, steer_display_deg,
    last_target_change_ms,
    width, use_mph, enable_location_overlay, location_text, fallback_lat, fallback_lon,
    telemetry, signals, hud, calls, raised, frame_index

smoother == <<frame_rate, frame_dt_ms, elapsed_ms, steer_initialized,
              steer_target_deg, steer_display_deg, last_target_change_ms>>
config == <<width, use_mph, enable_location_overlay, location_text, fallback_lat, fallback_lon>>
vars == <<smoother, config, telemetry, signals, hud, calls, raised, frame_index>>

----------------------------------------------------------------------------
(* Fixed-point scales *)
Milli == 1000
TicksPerMs == 3

(* Bounds of the explored frame sequences *)
MaxFrames == 5

----------------------------------------------------------------------------
(* Python values *)
NoStr == <<>>
Absent == [t |-> "absent", n |-> 0, s |-> NoStr]   \* key not in the dict
None == [t |-> "none", n |-> 0, s |-> NoStr]
Num(n) == [t |-> "num", n |-> n, s |-> NoStr]      \* finite number, n thousandths
Inf == [t |-> "inf", n |-> 0, s |-> NoStr]
NInf == [t |-> "ninf", n |-> 0, s |-> NoStr]
NaN == [t |-> "nan", n |-> 0, s |-> NoStr]
Bool(b) == [t |-> "bool", n |-> IF b THEN 1 ELSE 0, s |-> NoStr]
Str(cs) == [t |-> "str", n |-> 0, s |-> cs]
ValueError == [t |-> "error", n |-> 0, s |-> NoStr] \* the call raised

(* Python truthiness of a value (used by `x or y`, `if telemetry`) *)
Truthy(v) ==
    CASE v.t \in {"absent", "none"} -> FALSE
      [] v.t \in {"num", "bool"} -> v.n # 0
      [] v.t = "str" -> Len(v.s) > 0
      [] OTHER -> TRUE

Or(a, b) == IF Truthy(a) THEN a ELSE b

----------------------------------------------------------------------------
(* Characters *)
LowerCase == <<"a","b","c","d","e","f","g","h","i","j","k","l","m",
               "n","o","p","q","r","s","t","u","v","w","x","y","z">>
UpperCase == <<"A","B","C","D","E","F","G","H","I","J","K","L","M",
               "N","O","P","Q","R","S","T","U","V","W","X","Y","Z">>
DigitChars == <<"0","1","2","3","4","5","6","7","8","9">>

UpperChar(c) ==
    IF \E i \in 1..26 : LowerCase[i] = c
    THEN UpperCase[CHOOSE i \in 1..26 : LowerCase[i] = c]
    ELSE c
LowerChar(c) ==
    IF \E i \in 1..26 : UpperCase[i] = c
    THEN LowerCase[CHOOSE i \in 1..26 : UpperCase[i] = c]
    ELSE c

Upper(cs) == [i \in 1..Len(cs) |-> UpperChar(cs[i])]
Lower(cs) == [i \in 1..Len(cs) |-> LowerChar(cs[i])]

IsSpace(c) == c = " "

RECURSIVE LStrip(_)
LStrip(cs) == IF Len(cs) > 0 /\ IsSpace(cs[1]) THEN LStrip(Tail(cs)) ELSE cs
RECURSIVE RStrip(_)
RStrip(cs) ==
    IF Len(cs) > 0 /\ IsSpace(cs[Len(cs)])
    THEN RStrip(SubSeq(cs, 1, Len(cs) - 1)) ELSE cs
Strip(cs) == RStrip(LStrip(cs))

IsDigit(c) == \E i \in 1..10 : DigitChars[i] = c
DigitVal(c) == (CHOOSE i \in 1..10 : DigitChars[i] = c) - 1

RECURSIVE NatToStr(_)
NatToStr(n) ==
    IF n < 10 THEN <<DigitChars[n + 1]>>
    ELSE NatToStr(n \div 10) \o <<DigitChars[(n % 10) + 1]>>
IntToStr(n) == IF n < 0 THEN <<"-">> \o NatToStr(-n) ELSE NatToStr(n)

Abs(n) == IF n < 0 THEN -n ELSE n

TruncDiv(a, b) == IF a >= 0 THEN a \div b ELSE -((-a) \div b)

----------------------------------------------------------------------------
(* float(x): the conversion pick_number applies to a field's value.        *)
(* A string is stripped, then read as [sign] digits [. digits], or as      *)
(* inf / infinity / nan in any case; anything else raises ValueError.      *)
(* None raises TypeError.  Both are caught by pick_number.                 *)
AllDigits(cs) == \A i \in 1..Len(cs) : IsDigit(cs[i])

RECURSIVE DigitsVal(_)
DigitsVal(cs) ==
    IF Len(cs) = 0 THEN 0
    ELSE 10 * DigitsVal(SubSeq(cs, 1, Len(cs) - 1)) + DigitVal(cs[Len(cs)])

(* the fraction digits as thousandths: ".5" is 500, ".25" is 250 *)
FracMilli(cs) ==
    LET d(i) == IF i <= Len(cs) THEN DigitVal(cs[i]) ELSE 0
    IN 100 * d(1) + 10 * d(2) + d(3)

ParseUnsigned(cs) ==
    IF \E i \in 1..Len(cs) : cs[i] = "."
    THEN LET p == CHOOSE i \in 1..Len(cs) : cs[i] = "." /\ \A j \in 1..(i-1) : cs[j] # "."
             ip == SubSeq(cs, 1, p - 1)
             fp == SubSeq(cs, p + 1, Len(cs))
         IN IF AllDigits(ip) /\ AllDigits(fp) /\ Len(ip) + Len(fp) > 0
            THEN Num(DigitsVal(ip) * Milli + FracMilli(fp))
            ELSE ValueError
    ELSE IF Len(cs) > 0 /\ AllDigits(cs) THEN Num(DigitsVal(cs) * Milli) ELSE ValueError

Negate(v) ==
    CASE v.t = "num" -> Num(-v.n)
      [] v.t = "inf" -> NInf
      [] v.t = "ninf" -> Inf
      [] OTHER -> v

ParseFloat(cs) ==
    LET st == Strip(cs)
        signed == Len(st) > 0 /\ st[1] \in {"+", "-"}
        body == IF signed THEN Tail(st) ELSE st
        word == Upper(body)
        mag == CASE word \in {<<"I","N","F">>, <<"I","N","F","I","N","I","T","Y">>} -> Inf
                 [] word = <<"N","A","N">> -> NaN
                 [] OTHER -> ParseUnsigned(body)
    IN IF signed /\ st[1] = "-" THEN Negate(mag) ELSE mag

ToFloat(v) ==
    CASE v.t \in {"num", "inf", "ninf", "nan"} -> v
      [] v.t = "bool" -> Num(v.n * Milli)
      [] v.t = "str" -> ParseFloat(v.s)
      [] OTHER -> ValueError

(* math.isnan *)
IsNan(v) == v.t = "nan"

(* `key in data` and data.get(key) *)
HasKey(data, key) == data[key].t # "absent"
Get(data, key) == IF HasKey(data, key) THEN data[key] ELSE None

(* pick_number tried on keys[i..]: the loop of lines 136-145 *)
AcceptNumber(val) == val.t # "error" /\ ~IsNan(val)

RECURSIVE PickNumberFrom(_, _, _, _)
PickNumberFrom(data, keys, default, i) ==
    IF i > Len(keys) THEN default
    ELSE IF ~HasKey(data, keys[i]) THEN PickNumberFrom(data, keys, default, i + 1)
    ELSE LET val == ToFloat(data[keys[i]])
         IN IF AcceptNumber(val) THEN val
            ELSE PickNumberFrom(data, keys, default, i + 1)

pick_number(data, keys, default) == PickNumberFrom(data, keys, default, 1)

(* pick_bool: lines 147-160.  The result is a Python bool, here a BOOLEAN *)
W_TRUE == <<"t","r","u","e">>
W_YES == <<"y","e","s">>
W_ON == <<"o","n">>
W_FALSE == <<"f","a","l","s","e">>
W_NO == <<"n","o">>
W_OFF == <<"o","f","f">>

TrueWords_NoOn == {W_TRUE, <<"1">>, W_YES}
TrueWords == {W_TRUE, <<"1">>, W_YES, W_ON}
FalseWords == {W_FALSE, <<"0">>, W_NO, W_OFF}

(* what one field value decides: "true", "false", or "next" to try the next key *)
BoolOfValue(val) ==
    CASE val.t = "bool" -> IF val.n = 1 THEN "true" ELSE "false"
      [] val.t = "num" -> IF val.n # 0 THEN "true" ELSE "false"
      [] val.t \in {"inf", "ninf", "nan"} -> "true"           \* val != 0
      [] val.t = "str" ->
           LET lowered == Lower(Strip(val.s))
           IN IF lowered \in TrueWords THEN "true"
              ELSE IF lowered \in FalseWords THEN "false"
              ELSE "next"
      [] OTHER -> "next"

RECURSIVE PickBoolFrom(_, _, _, _)
PickBoolFrom(data, keys, default, i) ==
    IF i > Len(keys) THEN default
    ELSE LET got == BoolOfValue(Get(data, keys[i]))
         IN IF got = "next" THEN PickBoolFrom(data, keys, default, i + 1)
            ELSE got = "true"

pick_bool(data, keys, default) == PickBoolFrom(data, keys, default, 1)

----------------------------------------------------------------------------
(* int(x) of a float: truncation toward zero; raises on inf and nan *)
IntOf(v) ==
    CASE v.t = "num" -> Num(TruncDiv(v.n, Milli) * Milli)
      [] v.t = "bool" -> Num(v.n * Milli)
      [] OTHER -> ValueError

IsNumber(v) == v.t \in {"num", "bool", "inf", "ninf", "nan"}  \* isinstance(v, (int, float))

GEAR_MAPPING == << <<"P">>, <<"D">>, <<"R">>, <<"N">> >>

PARK == <<"P","A","R","K">>
DRIVE == <<"D","R","I","V","E">>
REVERSE == <<"R","E","V","E","R","S","E">>
NEUTRAL == <<"N","E","U","T","R","A","L">>
GEAR_ == <<"G","E","A","R","_">>

(* the lookup dict of normalize_gear; NoStr when the key is not in it *)
GearLookup(gear_str) ==
    CASE gear_str \in {PARK, GEAR_ \o PARK, <<"P">>} -> <<"P">>
      [] gear_str \in {DRIVE, GEAR_ \o DRIVE, <<"D">>} -> <<"D">>
      [] gear_str \in {REVERSE, GEAR_ \o REVERSE, <<"R">>} -> <<"R">>
      [] gear_str \in {NEUTRAL, GEAR_ \o NEUTRAL, <<"N">>} -> <<"N">>
      [] OTHER -> NoStr

(* what normalize_gear returns for a numeric code outside the table *)
GearOutOfRange_AsPark == <<"P">>
GearOutOfRange == <<"?">>

(* the result is a Str, or ValueError when int(raw) raises *)
normalize_gear(raw) ==
    IF raw.t \in {"none", "absent"} THEN Str(<<"P">>)
    ELSE IF IsNumber(raw)
    THEN LET idx == IntOf(raw)
         IN IF idx.t = "error" THEN ValueError
            ELSE IF 0 <= idx.n /\ idx.n < Len(GEAR_MAPPING) * Milli
            THEN Str(GEAR_MAPPING[(idx.n \div Milli) + 1])
            ELSE Str(GearOutOfRange)
    ELSE IF raw.t = "str"
    THEN LET gear_str == Upper(Strip(raw.s))
             hit == GearLookup(gear_str)
         IN IF hit # NoStr THEN Str(hit)
            ELSE IF Len(gear_str) > 0 THEN Str(<<gear_str[1]>>)
            ELSE Str(<<"?">>)
    ELSE Str(<<"?">>)

AP_NONE == <<"N","O","N","E">>
AP_SELF_DRIVING == <<"S","E","L","F","_","D","R","I","V","I","N","G">>
AP_AUTOSTEER == <<"A","U","T","O","S","T","E","E","R">>
AP_TACC == <<"T","A","C","C">>
AP_STATES == <<AP_NONE, AP_SELF_DRIVING, AP_AUTOSTEER, AP_TACC>>

AutopilotAlias(state) ==
    CASE state = <<"A","U","T","O","P","I","L","O","T">> -> AP_AUTOSTEER
      [] state = <<"F","S","D">> -> AP_SELF_DRIVING
      [] state = <<"S","E","L","F","D","R","I","V","I","N","G">> -> AP_SELF_DRIVING
      [] state = <<"S","E","L","F","-","D","R","I","V","I","N","G">> -> AP_SELF_DRIVING
      [] state = <<"A","U","T","O","-","S","T","E","E","R">> -> AP_AUTOSTEER
      [] state = <<"A","U","T","O","_","S","T","E","E","R">> -> AP_AUTOSTEER
      [] state = <<"C","R","U","I","S","E">> -> AP_TACC
      [] OTHER -> IF Len(state) > 0 THEN state ELSE AP_NONE

normalize_autopilot(raw) ==
    IF raw.t \in {"none", "absent"} THEN Str(AP_NONE)
    ELSE IF IsNumber(raw)
    THEN LET idx == IntOf(raw)
         IN IF idx.t = "error" THEN ValueError
            ELSE IF 0 <= idx.n /\ idx.n < Len(AP_STATES) * Milli
            THEN Str(AP_STATES[(idx.n \div Milli) + 1])
            ELSE Str(AP_NONE)
    ELSE Str(AutopilotAlias(Upper(Strip(raw.s))))

----------------------------------------------------------------------------
(* clamp(value, min_value, max_value) == max(min_value, min(max_value, value)), *)
(* value a float (possibly inf or -inf), the two limits finite.  The result is  *)
(* a finite count of thousandths.                                               *)
clamp_NoUpper(value, min_value, max_value) ==
    CASE value.t = "num" -> IF value.n > min_value THEN value.n ELSE min_value
      [] value.t = "ninf" -> min_value
      [] OTHER -> max_value + max_value
clamp(value, min_value, max_value) ==
    LET inner == CASE value.t = "num" -> IF value.n < max_value THEN value ELSE Num(max_value)
                   [] value.t = "ninf" -> NInf
                   [] OTHER -> Num(max_value)          \* min(max_value, inf), min(max_value, nan)
    IN IF inner.t = "num" /\ inner.n > min_value THEN inner.n ELSE min_value

----------------------------------------------------------------------------
(* HudRenderState *)
MAX_STEER_DEG == 540
SNAP_AFTER_MS == 500
DEFAULT_FRAME_RATE == 30

(* __init__: safe_rate and frame_dt_ms = 1000.0 / safe_rate, in ticks *)
SafeRate(rate) == IF rate # 0 /\ rate > 0 THEN rate ELSE DEFAULT_FRAME_RATE
FrameDt(rate) == (1000 * TicksPerMs) \div SafeRate(rate)

(* 1 - math.exp(-frame_dt_ms / 110.0) in thousandths, rounded down, for the *)
(* frame periods of the frame rates explored (30, 5, 4 and 1 per second)    *)
Smoothing(dt) ==
    CASE dt <= 0 -> 1000
      [] dt = FrameDt(30) -> 261
      [] dt = FrameDt(5) -> 837
      [] dt = FrameDt(4) -> 896
      [] dt = FrameDt(1) -> 999

(* advance(): line 109 *)
advance_NoOp(elapsed, dt) == elapsed
advance(elapsed, dt) == elapsed + dt

(* line 123: does the clamped target differ from the stored one *)
TargetChanged_Always(target, stored) == TRUE
TargetChanged(target, stored) == target # stored

(* line 128: one step of exponential easing *)
Ease_Overshoot(display, target, dt) == display + 2 * (target - display)
Ease(display, target, dt) == display + TruncDiv((target - display) * Smoothing(dt), 1000)

(* lines 130-131: the snap once the target has been held for more than 500 ms *)
Settle_NoSnap(display, target, elapsed, last_change) == display
Settle(display, target, elapsed, last_change) ==
    IF elapsed - last_change > SNAP_AFTER_MS * TicksPerMs THEN target ELSE display

(* smooth_steer(target_deg) at clock `now`: the new steering sub-state *)
smooth_steer(target_deg, now) ==
    LET target == clamp(target_deg, -MAX_STEER_DEG * Milli, MAX_STEER_DEG * Milli)
    IN IF ~steer_initialized
       THEN [initialized |-> TRUE, target |-> target, display |-> target, last |-> now]
       ELSE LET changed == TargetChanged(target, steer_target_deg)
                tgt == IF changed THEN target ELSE steer_target_deg
                last == IF changed THEN now ELSE last_target_change_ms
                eased == Ease(steer_display_deg, tgt, frame_dt_ms)
            IN [initialized |-> TRUE, target |-> tgt,
                display |-> Settle(eased, tgt, now, last), last |-> last]

----------------------------------------------------------------------------
(* Speed: lines 585-588 and the text of draw_speed_block (line 365).        *)
(* The products are exact decimals held in limbs of six digits, since a     *)
(* product of two six-digit numbers does not fit one machine integer here.  *)
MPH_PER_MPS == 223694      \* 2.23694, in units of 10^-5
KMH_PER_MPH == 160934      \* 1.60934, in units of 10^-5

(* a * b for 0 <= a, b < 10^6, as <<high limb, low limb>> *)
Mul2(a, b) ==
    LET a1 == a \div 1000
        a0 == a % 1000
        b1 == b \div 1000
        b0 == b % 1000
        t == (a1 * b0 + a0 * b1) * 1000 + a0 * b0
    IN <<a1 * b1 + t \div 1000000, t % 1000000>>

(* |speed_mps| * 2.23694 in units of 10^-8, two limbs *)
SpeedMphLimbs(mag) == Mul2(mag, MPH_PER_MPS)

(* int() of the speed in mph: the two limbs divided by 10^8 *)
IntMph(mag) == SpeedMphLimbs(mag)[1] \div 100

(* int() of speed_mph * 1.60934: three limbs in units of 10^-13, divided by 10^13 *)
IntKmh(mag) ==
    LET mph == SpeedMphLimbs(mag)
        lo == Mul2(mph[2], KMH_PER_MPH)
        hi == Mul2(mph[1], KMH_PER_MPH)
        carry == (lo[1] + hi[2]) \div 1000000
    IN (hi[1] + carry) \div 10

SpeedNumber(mag, mph) == IF mph THEN IntMph(mag) ELSE IntKmh(mag)

(* speed_text = f"{int(speed)}"; int() raises OverflowError on an infinite speed *)
SpeedText(speed_mps, mph) ==
    IF speed_mps.t # "num" THEN ValueError
    ELSE LET whole == SpeedNumber(Abs(speed_mps.n), mph)
         IN Str(IntToStr(IF speed_mps.n < 0 THEN -whole ELSE whole))

----------------------------------------------------------------------------
(* Location overlay: draw_location_overlay, lines 487-522 *)

(* f"{x:.5f}" of a float held in thousandths *)
Pad3(n) == <<DigitChars[(n \div 100) + 1], DigitChars[((n \div 10) % 10) + 1],
             DigitChars[(n % 10) + 1]>>
FormatF5(x) ==
    CASE x.t = "inf" -> <<"i","n","f">>
      [] x.t = "ninf" -> <<"-","i","n","f">>
      [] x.t = "nan" -> <<"n","a","n">>
      [] OTHER -> (IF x.n < 0 THEN <<"-">> ELSE NoStr)
                  \o NatToStr(Abs(x.n) \div Milli) \o <<".">>
                  \o Pad3(Abs(x.n) % Milli) \o <<"0","0">>

IsZero(x) == x.t = "num" /\ x.n = 0     \* x == 0.0

(* line 492: is the SEI pair unusable, so that the fallback pair is taken *)
UseFallback_EitherZero(latitude, longitude) ==
    latitude.t = "none" \/ longitude.t = "none" \/ IsZero(latitude) \/ IsZero(longitude)
UseFallback(latitude, longitude) ==
    latitude.t = "none" \/ longitude.t = "none" \/ (IsZero(latitude) /\ IsZero(longitude))

ResolveGps(latitude, longitude, fb_lat, fb_lon) ==
    IF UseFallback(latitude, longitude) THEN <<fb_lat, fb_lon>> ELSE <<latitude, longitude>>

(* the text drawn, or None when nothing is drawn (the early return of line 520) *)
LocationFullText(text, latitude, longitude, fb_lat, fb_lon) ==
    LET gps == ResolveGps(latitude, longitude, fb_lat, fb_lon)
        has_gps == gps[1].t # "none" /\ gps[2].t # "none"
                   /\ ~(IsZero(gps[1]) /\ IsZero(gps[2]))
        gps_text == FormatF5(gps[1]) \o <<",", " ">> \o FormatF5(gps[2])
        has_text == Truthy(text)
    IN CASE has_text /\ has_gps -> Str(text.s \o <<" ", "(">> \o gps_text \o <<")">>)
         [] has_text /\ ~has_gps -> Str(text.s)
         [] ~has_text /\ has_gps -> Str(gps_text)
         [] OTHER -> None

----------------------------------------------------------------------------
(* Telemetry records: a dict is a function on Keys, Absent where the key is *)
(* not in it; the record of a frame may also be None.                       *)
Keys == {"latitude", "latitudeDeg", "latitude_deg",
         "longitude", "longitudeDeg", "longitude_deg",
         "vehicleSpeedMps", "vehicle_speed_mps", "speed_mps",
         "gearState", "gear_state", "gear",
         "throttlePct", "acceleratorPedalPosition", "accelerator_pedal_position",
         "steeringWheelAngle", "steering_wheel_angle",
         "autopilotState", "autopilot_state",
         "brakeApplied", "brake_applied",
         "leftBlinkerOn", "blinker_on_left", "rightBlinkerOn", "blinker_on_right"}

EmptyDict == [k \in Keys |-> Absent]
NoTelemetry == [isNone |-> TRUE, data |-> EmptyDict]
Tel(d) == [isNone |-> FALSE, data |-> d]
Dict1(k, v) == [EmptyDict EXCEPT ![k] = v]
Dict2(k1, v1, k2, v2) == [EmptyDict EXCEPT ![k1] = v1, ![k2] = v2]

(* `if telemetry`: None and the empty dict are falsy *)
TelemetryTruthy(tel) == ~tel.isNone /\ \E k \in Keys : HasKey(tel.data, k)

LATITUDE_KEYS == <<"latitude", "latitudeDeg", "latitude_deg">>
LONGITUDE_KEYS == <<"longitude", "longitudeDeg", "longitude_deg">>
SPEED_KEYS == <<"vehicleSpeedMps", "vehicle_speed_mps", "speed_mps">>
THROTTLE_KEYS == <<"throttlePct", "acceleratorPedalPosition", "accelerator_pedal_position">>
STEERING_KEYS == <<"steeringWheelAngle", "steering_wheel_angle">>

(* lines 574-575 *)
Latitude(tel) ==
    IF TelemetryTruthy(tel) THEN pick_number(tel.data, LATITUDE_KEYS, None) ELSE None
Longitude(tel) ==
    IF TelemetryTruthy(tel) THEN pick_number(tel.data, LONGITUDE_KEYS, None) ELSE None

(* line 585, 592, 596: pick_number(...) or 0 *)
SpeedMps(data) == Or(pick_number(data, SPEED_KEYS, Num(0)), Num(0))
ThrottleRaw(data) == Or(pick_number(data, THROTTLE_KEYS, Num(0)), Num(0))
SteeringAngle(data) == Or(pick_number(data, STEERING_KEYS, Num(0)), Num(0))

(* lines 591, 597, 598 *)
BRAKE_KEYS == <<"brakeApplied", "brake_applied">>
LEFT_BLINKER_KEYS == <<"leftBlinkerOn", "blinker_on_left">>
RIGHT_BLINKER_KEYS == <<"rightBlinkerOn", "blinker_on_right">>
Brake(data) == pick_bool(data, BRAKE_KEYS, FALSE)
LeftBlinker(data) == pick_bool(data, LEFT_BLINKER_KEYS, FALSE)
RightBlinker(data) == pick_bool(data, RIGHT_BLINKER_KEYS, FALSE)

(* line 590 and 599: the `or` chains *)
GearRaw(data) == Or(Or(Get(data, "gearState"), Get(data, "gear_state")), Get(data, "gear"))
AutopilotRaw(data) ==
    Or(Or(Get(data, "autopilotState"), Get(data, "autopilot_state")), Str(AP_NONE))

(* lines 593-595: the throttle fraction, in thousandths *)
ThrottleIsFraction_AtMostOne(throttle_raw) ==
    throttle_raw.t = "ninf" \/ (throttle_raw.t = "num" /\ throttle_raw.n <= 1000)
ThrottleIsFraction(throttle_raw) ==
    throttle_raw.t = "ninf" \/ (throttle_raw.t = "num" /\ throttle_raw.n <= 1500)

Times(v, k) == IF v.t = "num" THEN Num(v.n * k) ELSE v
DividedBy(v, k) == IF v.t = "num" THEN Num(TruncDiv(v.n, k)) ELSE v

Throttle(throttle_raw) ==
    LET scaled == IF ThrottleIsFraction(throttle_raw) THEN Times(throttle_raw, 100)
                  ELSE throttle_raw
    IN clamp(DividedBy(scaled, 100), 0, 1 * Milli)

----------------------------------------------------------------------------
(* create_hud_frame: one call, as one step *)
NoSignals == [speed_mps |-> None, throttle_raw |-> None, steering_angle |-> None,
              latitude |-> None, longitude |-> None, gear |-> None, autopilot |-> None,
              brake |-> None, left_blinker |-> None, right_blinker |-> None]

(* the clock the smoother queries of a frame see: advance() runs first (558-559) *)
ClockAtQuery_BeforeAdvance(elapsed, dt) == elapsed
ClockAtQuery(elapsed, dt) == advance(elapsed, dt)

(* the HUD elements drawn by lines 608-641, in drawing order *)
HUD_ELEMENTS == <<"speed", "blinker_left", "gear", "brake", "wheel", "throttle", "blinker_right">>

(* Layout, lines 14-28 and 568-641.  A box is <<x0, y0, x1, y1>> in pixels *)
HUD_WIDTH == 520
HUD_HEIGHT == 60
HUD_MARGIN_TOP == 5
CHIP_SIZE == 42
CHIP_GAP == 8
CHIP_GAP_WIDE == 14
SPEED_BLOCK_HALF_W == 60
SPEED_BLOCK_HALF_H == 28
LEFT_CHIPS == 3
PAD == 2
SPEED_LIFT == 2

HudX(w) == (w - HUD_WIDTH) \div 2                       \* floor division, as //
HudY == HUD_MARGIN_TOP
ChipY == HudY + (HUD_HEIGHT - CHIP_SIZE) \div 2
SpeedX(w) == HudX(w) + HUD_WIDTH \div 2
SpeedY == HudY + HUD_HEIGHT \div 2
SpeedBox(x, y) == <<x - SPEED_BLOCK_HALF_W, y - SPEED_BLOCK_HALF_H,
                    x + SPEED_BLOCK_HALF_W, y + SPEED_BLOCK_HALF_H>>
ChipBox(x, y) == <<x, y, x + CHIP_SIZE, y + CHIP_SIZE>>
GroupW == LEFT_CHIPS * CHIP_SIZE + (LEFT_CHIPS - 1) * CHIP_GAP
LeftStart(speed_box) == (speed_box[1] - CHIP_GAP_WIDE - PAD) - GroupW
RightStart_NoPad(speed_box) == speed_box[3] + CHIP_GAP_WIDE
RightStart(speed_box) == speed_box[3] + CHIP_GAP_WIDE + PAD
ChipStep == CHIP_SIZE + CHIP_GAP

(* where lines 608-641 put each element on a canvas w wide *)
Layout(w) ==
    LET speed_box == SpeedBox(SpeedX(w), SpeedY - SPEED_LIFT)
        left_start == LeftStart(speed_box)
        right_start == RightStart(speed_box)
    IN [e \in {HUD_ELEMENTS[i] : i \in 1..Len(HUD_ELEMENTS)} |->
          CASE e = "speed" -> speed_box
            [] e = "blinker_left" -> ChipBox(left_start, ChipY)
            [] e = "gear" -> ChipBox(left_start + ChipStep, ChipY)
            [] e = "brake" -> ChipBox(left_start + 2 * ChipStep, ChipY)
            [] e = "wheel" -> ChipBox(right_start, ChipY)
            [] e = "throttle" -> ChipBox(right_start + ChipStep, ChipY)
            [] e = "blinker_right" -> ChipBox(right_start + 2 * ChipStep, ChipY)]

(* nothing drawn *)
NoBoxes == [e \in {} |-> <<>>]

(* the boxes of the elements a frame drew *)
BoxesOf(drawn, w) ==
    [e \in {drawn[i] : i \in 1..Len(drawn)} \cap DOMAIN Layout(w) |-> Layout(w)[e]]

(* line 582-583: the elements drawn for a frame whose record is absent *)
ElementsWithoutTelemetry_DrawAll == HUD_ELEMENTS
ElementsWithoutTelemetry == <<>>

create_hud_frame(tel) ==
    LET now == advance(elapsed_ms, frame_dt_ms)
        seen == ClockAtQuery(elapsed_ms, frame_dt_ms)
        latitude == Latitude(tel)
        longitude == Longitude(tel)
        loc == IF enable_location_overlay
               THEN LocationFullText(location_text, latitude, longitude,
                                     fallback_lat, fallback_lon)
               ELSE None
        loc_drawn == IF loc.t = "str" THEN <<"location">> ELSE <<>>
        data == tel.data
        speed_mps == SpeedMps(data)
        gear == GearRaw(data)
        throttle_raw == ThrottleRaw(data)
        steering_angle == SteeringAngle(data)
        autopilot == normalize_autopilot(AutopilotRaw(data))
        st == smooth_steer(steering_angle, seen)
        speed_text == SpeedText(speed_mps, use_mph)
        gear_text == normalize_gear(gear)
        sig == [speed_mps |-> speed_mps, throttle_raw |-> throttle_raw,
                steering_angle |-> steering_angle, latitude |-> latitude,
                longitude |-> longitude, gear |-> gear, autopilot |-> autopilot,
                brake |-> Bool(Brake(data)), left_blinker |-> Bool(LeftBlinker(data)),
                right_blinker |-> Bool(RightBlinker(data))]
        blank == [location |-> loc, speed_text |-> None, unit |-> None,
                  gear_text |-> None, throttle |-> None, steer_display_angle |-> None,
                  drawn |-> loc_drawn, boxes |-> NoBoxes]
    IN /\ raised = "none"
       /\ telemetry' = tel
       /\ frame_index' = frame_index + 1
       /\ elapsed_ms' = now
       /\ UNCHANGED <<frame_rate, frame_dt_ms, config>>
       /\ IF tel.isNone
          THEN /\ signals' = [NoSignals EXCEPT !.latitude = latitude, !.longitude = longitude]
               /\ hud' = [blank EXCEPT !.drawn = loc_drawn \o ElementsWithoutTelemetry,
                                       !.boxes = BoxesOf(ElementsWithoutTelemetry, width)]
               /\ calls' = <<"advance">>
               /\ raised' = "none"
               /\ UNCHANGED <<steer_initialized, steer_target_deg, steer_display_deg,
                              last_target_change_ms>>
          ELSE IF autopilot.t = "error"
          THEN /\ signals' = sig
               /\ hud' = blank
               /\ calls' = <<"advance">>
               /\ raised' = "normalize_autopilot"
               /\ UNCHANGED <<steer_initialized, steer_target_deg, steer_display_deg,
                              last_target_change_ms>>
          ELSE /\ signals' = sig
               /\ calls' = <<"advance", "smooth_steer", "blink_pulse">>
               /\ steer_initialized' = st.initialized
               /\ steer_target_deg' = st.target
               /\ steer_display_deg' = st.display
               /\ last_target_change_ms' = st.last
               /\ LET shown == [blank EXCEPT !.steer_display_angle = Num(st.display)]
                  IN IF speed_text.t = "error"
                     THEN /\ hud' = shown
                          /\ raised' = "draw_speed_block"
                     ELSE IF gear_text.t = "error"
                     THEN /\ hud' = [shown EXCEPT
                                       !.speed_text = speed_text,
                                       !.unit = Str(IF use_mph THEN <<"m","p","h">>
                                                    ELSE <<"k","m","/","h">>),
                                       !.drawn = loc_drawn \o SubSeq(HUD_ELEMENTS, 1, 2),
                                       !.boxes = BoxesOf(SubSeq(HUD_ELEMENTS, 1, 2), width)]
                          /\ raised' = "draw_gear_chip"
                     ELSE /\ hud' = [shown EXCEPT
                                       !.speed_text = speed_text,
                                       !.unit = Str(IF use_mph THEN <<"m","p","h">>
                                                    ELSE <<"k","m","/","h">>),
                                       !.gear_text = gear_text,
                                       !.throttle = Num(Throttle(throttle_raw)),
                                       !.drawn = loc_drawn \o HUD_ELEMENTS,
                                       !.boxes = BoxesOf(HUD_ELEMENTS, width)]
                          /\ raised' = "none"

----------------------------------------------------------------------------
(* main(): one HudRenderState per run, created from --framerate, and one      *)
(* create_hud_frame call per record of the SEI sequence; an exception ends it *)
FrameRates == {-1, 0, 1, 4, 5}
DEFAULT_WIDTH == 1920

MAIN_ST == <<"M","a","i","n"," ","S","t">>
LocationTexts == {None, Str(NoStr), Str(MAIN_ST)}
FallbackLats == {None, Num(0), Num(37 * Milli)}
FallbackLons == {None, Num(0), Num(-122 * Milli)}

InitWith(rate) ==
    /\ frame_rate = SafeRate(rate)
    /\ frame_dt_ms = FrameDt(rate)
    /\ elapsed_ms = 0
    /\ steer_initialized = FALSE
    /\ steer_target_deg = 0
    /\ steer_display_deg = 0
    /\ last_target_change_ms = 0
    /\ telemetry = NoTelemetry
    /\ signals = NoSignals
    /\ hud = [location |-> None, speed_text |-> None, unit |-> None, gear_text |-> None,
              throttle |-> None, steer_display_angle |-> None, drawn |-> <<>>,
              boxes |-> NoBoxes]
    /\ calls = <<>>
    /\ raised = "none"
    /\ frame_index = 0

(* Frame sequences: the steering input varies, the record may be missing,    *)
(* and two records make a draw call raise                                    *)
SteeringInputs == {Num(720 * Milli), Num(-720 * Milli), Num(100 * Milli)}
SequenceTelemetry ==
    {NoTelemetry, Tel(EmptyDict)}
    \cup {Tel(Dict1("steeringWheelAngle", v)) : v \in SteeringInputs}
    \cup {Tel(Dict1("vehicleSpeedMps", Inf)), Tel(Dict1("autopilotState", NaN))}

Init ==
    /\ \E rate \in FrameRates : InitWith(rate)
    /\ width = DEFAULT_WIDTH
    /\ use_mph = FALSE
    /\ enable_location_overlay \in BOOLEAN
    /\ location_text = None
    /\ fallback_lat = Num(37 * Milli)
    /\ fallback_lon = Num(-122 * Milli)

RenderSequence ==
    /\ frame_index < MaxFrames
    /\ \E tel \in SequenceTelemetry : create_hud_frame(tel)

Next == RenderSequence

Spec == Init /\ [][Next]_vars

----------------------------------------------------------------------------
(* Single frames: one create_hud_frame call on a fresh HudRenderState, over  *)
(* the render configurations and over records that vary one signal at a time *)
ABC == <<"a","b","c">>
NumberFieldValues ==
    {Num(0), Num(500), Num(1200), Num(1500), Num(1501), Num(10 * Milli), Num(50 * Milli),
     Num(-2 * Milli), Num(720 * Milli), Inf, NInf, NaN, None, Bool(TRUE),
     Str(ABC), Str(<<" ","1","2",".","5"," ">>), Str(<<"i","n","f">>),
     Str(<<"N","a","N">>), Str(<<"-","3">>), Str(NoStr)}

NumberRecords ==
    {Tel(Dict1(k, v)) : k \in {"vehicleSpeedMps", "throttlePct", "steeringWheelAngle"},
                        v \in NumberFieldValues}
    \cup {Tel(Dict2("vehicleSpeedMps", Str(ABC), "speed_mps", Num(10 * Milli))),
          Tel(Dict2("vehicleSpeedMps", Num(10 * Milli), "vehicle_speed_mps", Num(5 * Milli))),
          Tel(Dict2("vehicle_speed_mps", NaN, "speed_mps", Num(5 * Milli))),
          Tel(Dict2("throttlePct", None, "accelerator_pedal_position", Num(500))),
          Tel(Dict2("acceleratorPedalPosition", Num(50 * Milli), "accelerator_pedal_position", Num(500))),
          Tel(Dict2("steeringWheelAngle", Str(ABC), "steering_wheel_angle", Num(-720 * Milli))),
          Tel(Dict1("steering_wheel_angle", Num(90 * Milli)))}

GpsRecords ==
    {Tel(Dict2("latitude", la, "longitude", lo)) :
        la \in {Absent, Num(0), Num(37500), Inf, NaN},
        lo \in {Absent, Num(0), Num(-122250), Str(ABC)}}
    \cup {Tel(Dict2("latitudeDeg", Num(37500), "longitude_deg", Num(-122250))),
          Tel(Dict2("latitude", None, "latitude_deg", Num(1001)))}

GearFieldValues ==
    {Num(0), Num(1 * Milli), Num(2 * Milli), Num(3 * Milli), Num(4 * Milli), Num(7 * Milli),
     Num(-1 * Milli), Num(1700), Num(-500), NaN, Inf, Bool(TRUE), Bool(FALSE), None,
     Str(<<"D">>), Str(<<"d","r","i","v","e">>),
     Str(<<" ","g","e","a","r","_","r","e","v","e","r","s","e"," ">>),
     Str(<<"P","a","r","k">>), Str(<<"n">>), Str(NEUTRAL), Str(GEAR_ \o PARK),
     Str(<<"s","p","o","r","t">>), Str(<<" "," ">>), Str(NoStr), Str(<<"2">>)}

GearRecords ==
    {Tel(Dict1("gearState", v)) : v \in GearFieldValues}
    \cup {Tel(Dict2("gearState", Num(0), "gear_state", Str(<<"D">>))),
          Tel(Dict2("gearState", Str(<<"R">>), "gear_state", Str(<<"D">>))),
          Tel(Dict2("gear_state", Str(<<"N">>), "gear", Str(<<"D">>))),
          Tel(Dict1("gear", Num(3 * Milli))),
          Tel(Dict1("gear", Num(9 * Milli))),
          Tel(Dict2("gearState", Str(NoStr), "gear", Str(NoStr)))}

AutopilotRecords ==
    {Tel(Dict1("autopilotState", v)) :
        v \in {Num(2 * Milli), Num(9 * Milli), Inf, Str(<<"f","s","d">>), Str(NoStr)}}
    \cup {Tel(Dict1("autopilot_state", Str(<<"c","r","u","i","s","e">>)))}

BoolFieldValues ==
    {Bool(TRUE), Bool(FALSE), Num(0), Num(1 * Milli), Num(-500), NaN, Inf, None,
     Str(W_TRUE), Str(<<" ","T","R","U","E"," ">>), Str(<<"Y","e","s">>),
     Str(<<" ","O","n"," ">>), Str(<<"1">>), Str(W_FALSE), Str(<<"N","o">>),
     Str(<<"O","F","F">>), Str(<<"0">>), Str(<<"m","a","y","b","e">>), Str(NoStr),
     Str(<<"2">>)}

BoolRecords ==
    {Tel(Dict1(k, v)) : k \in {"brakeApplied", "leftBlinkerOn"}, v \in BoolFieldValues}
    \cup {Tel(Dict2("brakeApplied", Str(<<"m","a","y","b","e">>), "brake_applied", Bool(TRUE))),
          Tel(Dict2("brakeApplied", Bool(FALSE), "brake_applied", Bool(TRUE))),
          Tel(Dict2("brakeApplied", None, "brake_applied", Str(W_ON))),
          Tel(Dict1("brake_applied", Num(1 * Milli))),
          Tel(Dict2("leftBlinkerOn", Str(NoStr), "blinker_on_left", Str(W_YES))),
          Tel(Dict1("rightBlinkerOn", Str(W_ON))),
          Tel(Dict1("blinker_on_right", Bool(TRUE))),
          Tel(Dict2("rightBlinkerOn", Num(0), "blinker_on_right", Bool(TRUE)))}

SingleTelemetry ==
    {NoTelemetry, Tel(EmptyDict)} \cup NumberRecords \cup GpsRecords \cup GearRecords
    \cup AutopilotRecords \cup BoolRecords

InitSingle ==
    /\ InitWith(DEFAULT_FRAME_RATE)
    /\ width = DEFAULT_WIDTH
    /\ use_mph \in BOOLEAN
    /\ enable_location_overlay \in BOOLEAN
    /\ location_text \in LocationTexts
    /\ fallback_lat \in FallbackLats
    /\ fallback_lon \in FallbackLons

RenderSingle ==
    /\ frame_index = 0
    /\ \E tel \in SingleTelemetry : create_hud_frame(tel)

NextSingle == RenderSingle

SpecSingle == InitSingle /\ [][NextSingle]_vars

----------------------------------------------------------------------------
(* Canvas widths: one create_hud_frame call per --width and record, narrower *)
(* and wider than the HUD band, even and odd                                 *)
Widths == {1, 300, 519, 520, 521, 1280, 1281, DEFAULT_WIDTH, 3840}

InitLayout ==
    /\ InitWith(DEFAULT_FRAME_RATE)
    /\ width \in Widths
    /\ use_mph = FALSE
    /\ enable_location_overlay \in BOOLEAN
    /\ location_text = None
    /\ fallback_lat = None
    /\ fallback_lon = None

RenderLayout ==
    /\ frame_index = 0
    /\ \E tel \in SingleTelemetry : create_hud_frame(tel)

NextLayout == RenderLayout

SpecLayout == InitLayout /\ [][NextLayout]_vars

----------------------------------------------------------------------------
(* Properties *)

(* the last frame queried the smoother's steering *)
SteerQueried == \E i \in 1..Len(calls) : calls[i] = "smooth_steer"
HeldMs == elapsed_ms - last_target_change_ms
SnapTicks == SNAP_AFTER_MS * TicksPerMs
MaxSteer == MAX_STEER_DEG * Milli

(* C1: Smoother convergence.  Whenever a frame has called smooth_steer and the *)
(* clock is more than 500 ms past the last target change, the value returned   *)
(* (steer_display_deg) equals steer_target_deg exactly, at every frame rate.   *)
C1_SmootherConvergence ==
    (SteerQueried /\ HeldMs > SnapTicks) =>
        /\ steer_display_deg = steer_target_deg
        /\ hud.steer_display_angle = Num(steer_target_deg)

(* a target changed after the first call and then held for more than 500 ms *)
C1_Witness ==
    /\ SteerQueried
    /\ HeldMs > SnapTicks
    /\ last_target_change_ms > frame_dt_ms
    /\ steer_display_deg = steer_target_deg
    /\ steer_target_deg # 0

(* C2: Idempotence under repeated targets.  A smooth_steer call on an          *)
(* initialized smoother whose clamped target equals the stored target leaves   *)
(* last_target_change_ms and steer_target_deg unchanged; last_target_change_ms *)
(* is written only by the first call and by calls whose clamped target differs.*)
C2_RepeatedTargetKeepsLastChange ==
    [][ LET target == clamp(signals'.steering_angle, -MaxSteer, MaxSteer)
        IN /\ (SteerQueried' /\ steer_initialized /\ target = steer_target_deg)
                => /\ last_target_change_ms' = last_target_change_ms
                   /\ steer_target_deg' = steer_target_deg
           /\ (last_target_change_ms' # last_target_change_ms)
                => /\ SteerQueried'
                   /\ (~steer_initialized \/ target # steer_target_deg)
      ]_vars

(* the last call repeated the stored target: the stamp is older than the clock *)
C2_Witness ==
    /\ SteerQueried
    /\ frame_index >= 2
    /\ last_target_change_ms < elapsed_ms
    /\ clamp(signals.steering_angle, -MaxSteer, MaxSteer) = steer_target_deg
    /\ steer_target_deg # 0

(* C3: Steering clamp.  The stored steer_target_deg is always within           *)
(* [-540, 540]; an input above 540 is stored as exactly 540 and an input below *)
(* -540 as exactly -540.                                                       *)
C3_SteeringClamp ==
    /\ -MaxSteer <= steer_target_deg /\ steer_target_deg <= MaxSteer
    /\ (SteerQueried /\ signals.steering_angle.t = "num"
          /\ signals.steering_angle.n > MaxSteer) => steer_target_deg = MaxSteer
    /\ (SteerQueried /\ signals.steering_angle.t = "num"
          /\ signals.steering_angle.n < -MaxSteer) => steer_target_deg = -MaxSteer

C3_Witness ==
    /\ SteerQueried
    /\ signals.steering_angle = Num(720 * Milli)
    /\ steer_target_deg = MaxSteer

(* C4: Clock discipline.  Every create_hud_frame call advances the clock       *)
(* exactly once and before the frame's smoother queries: after n frames        *)
(* elapsed_ms is n * frame_dt_ms, with or without telemetry, and every stamp   *)
(* smooth_steer took of the clock is an already advanced one.                  *)
C4_ClockDiscipline ==
    /\ elapsed_ms = frame_index * frame_dt_ms
    /\ frame_index > 0 =>
         /\ calls[1] = "advance"
         /\ \A i \in 2..Len(calls) : calls[i] # "advance"
    /\ steer_initialized =>
         /\ last_target_change_ms >= frame_dt_ms
         /\ last_target_change_ms <= elapsed_ms
    /\ (SteerQueried /\ frame_index = 1) => last_target_change_ms = elapsed_ms

(* frames with and without telemetry have both advanced the clock *)
C4_Witness ==
    /\ frame_index >= 3
    /\ telemetry.isNone
    /\ steer_initialized
    /\ last_target_change_ms = 2 * frame_dt_ms
    /\ elapsed_ms = frame_index * frame_dt_ms

----------------------------------------------------------------------------
Rendered == frame_index > 0
Elements(seq) == {seq[i] : i \in 1..Len(seq)}
HudElementNames == Elements(HUD_ELEMENTS)
PairUsable(lat, lon) ==
    lat.t # "none" /\ lon.t # "none" /\ ~(IsZero(lat) /\ IsZero(lon))

(* C5: Missing telemetry record.  A frame whose record is None raises nothing  *)
(* and draws no HUD element (no speed block, none of the six chips); the       *)
(* location overlay is drawn exactly when it is enabled and the static label   *)
(* or the fallback GPS pair yields a text.                                     *)
C5_MissingTelemetry ==
    (Rendered /\ telemetry.isNone) =>
        /\ raised = "none"
        /\ Elements(hud.drawn) \cap HudElementNames = {}
        /\ hud.speed_text = None /\ hud.gear_text = None /\ hud.throttle = None
        /\ ("location" \in Elements(hud.drawn)) <=>
               (enable_location_overlay
                 /\ (Truthy(location_text) \/ PairUsable(fallback_lat, fallback_lon)))

(* a missing record whose frame still carries the overlay from the fallback GPS *)
C5_Witness ==
    /\ Rendered /\ telemetry.isNone
    /\ hud.drawn = <<"location">>
    /\ ~Truthy(location_text)

(* the text the location overlay is to show, None when it is not drawn *)
C6_Live == PairUsable(signals.latitude, signals.longitude)
C6_Pair == IF C6_Live THEN <<signals.latitude, signals.longitude>>
           ELSE <<fallback_lat, fallback_lon>>
C6_Coordinates == FormatF5(C6_Pair[1]) \o <<",", " ">> \o FormatF5(C6_Pair[2])
C6_Text ==
    IF PairUsable(C6_Pair[1], C6_Pair[2])
    THEN IF Truthy(location_text)
         THEN Str(location_text.s \o <<" ", "(">> \o C6_Coordinates \o <<")">>)
         ELSE Str(C6_Coordinates)
    ELSE IF Truthy(location_text) THEN Str(location_text.s) ELSE None

FALLBACK_ONLY_TEXT ==
    <<"3","7",".","0","0","0","0","0",","," ","-","1","2","2",".","0","0","0","0","0">>

(* C6: Location fallback and text.  The overlay uses the live pair iff both    *)
(* are present and not exactly (0,0), otherwise the fallback pair; the text is *)
(* the label followed by "{lat:.5f}, {lon:.5f}" (in parentheses only after a   *)
(* label) when the resolved pair is complete and not (0,0); nothing is drawn   *)
(* without a label and such a pair.  No label, no live GPS and fallback        *)
(* (37.0, -122.0) give exactly "37.00000, -122.00000".                         *)
C6_LocationText ==
    (Rendered /\ enable_location_overlay) =>
        /\ hud.location = C6_Text
        /\ ("location" \in Elements(hud.drawn)) <=> (C6_Text # None)
        /\ (location_text = None /\ signals.latitude = None /\ signals.longitude = None
              /\ fallback_lat = Num(37 * Milli) /\ fallback_lon = Num(-122 * Milli))
             => hud.location = Str(FALLBACK_ONLY_TEXT)

(* a live pair with a zero latitude only is used, after a label *)
C6_Witness ==
    /\ Rendered /\ enable_location_overlay
    /\ signals.latitude = Num(0) /\ signals.longitude = Num(-122250)
    /\ fallback_lat = Num(37 * Milli)
    /\ hud.location = Str(MAIN_ST \o <<" ","(","0",".","0","0","0","0","0",","," ",
                                       "-","1","2","2",".","2","5","0","0","0",")">>)

ClampInt(n, lo, hi) == IF n < lo THEN lo ELSE IF n > hi THEN hi ELSE n

(* C7: Throttle ambiguity rule.  The throttle fraction is clamp(r, 0, 1) for a *)
(* raw value r <= 1.5 and clamp(r/100, 0, 1) for r > 1.5, always within [0,1]; *)
(* raw 0.5 and raw 50 both give 0.5 and raw 1.2 gives 1.0.                     *)
C7_ThrottleRule ==
    (Rendered /\ hud.throttle # None) =>
        LET r == signals.throttle_raw
            f == hud.throttle.n
        IN /\ hud.throttle.t = "num" /\ 0 <= f /\ f <= 1 * Milli
           /\ (r.t = "num" /\ r.n <= 1500) => f = ClampInt(r.n, 0, 1 * Milli)
           /\ (r.t = "num" /\ r.n > 1500) => f = ClampInt(TruncDiv(r.n, 100), 0, 1 * Milli)
           /\ r.t = "ninf" => f = 0
           /\ r.t = "inf" => f = 1 * Milli
           /\ r \in {Num(500), Num(50 * Milli)} => f = 500
           /\ r = Num(1200) => f = 1 * Milli

C7_Witness ==
    /\ Rendered
    /\ signals.throttle_raw = Num(1200)
    /\ hud.throttle = Num(1 * Milli)

(* C8: Speed text.  With vehicleSpeedMps = 10 and use_mph = false the speed    *)
(* text, the m/s value times 2.23694 times 1.60934, reads "36".                *)
C8_SpeedTextKmh ==
    (Rendered /\ ~use_mph /\ signals.speed_mps = Num(10 * Milli) /\ hud.speed_text # None)
        => hud.speed_text = Str(<<"3","6">>)

----------------------------------------------------------------------------
(* the value the gear chip reads: the first alias of gearState, gear_state,   *)
(* gear whose value is truthy, else the value of gear (None when absent)      *)
C9_Raw ==
    LET a == Get(telemetry.data, "gearState")
        b == Get(telemetry.data, "gear_state")
        c == Get(telemetry.data, "gear")
    IN IF Truthy(a) THEN a ELSE IF Truthy(b) THEN b ELSE c

C9_Letters == <<"P", "D", "R", "N">>
C9_Names == <<PARK, DRIVE, REVERSE, NEUTRAL>>
C9_AliasOf(word, i) == word \in {C9_Names[i], GEAR_ \o C9_Names[i], <<C9_Letters[i]>>}

(* the cases of gear normalization, out_of_range being the text shown for a   *)
(* numeric code outside 0..3                                                  *)
C9_Cases(out_of_range) ==
    LET raw == signals.gear
        shown == hud.gear_text.s
        code == IF raw.t = "bool" THEN raw.n ELSE TruncDiv(raw.n, Milli)
        word == Upper(Strip(raw.s))
    IN /\ hud.gear_text.t = "str"
       /\ raw = C9_Raw
       /\ raw.t = "none" => shown = <<"P">>
       /\ (raw.t \in {"num", "bool"} /\ code \in 0..3) => shown = <<C9_Letters[code + 1]>>
       /\ (raw.t \in {"num", "bool"} /\ code \notin 0..3) => shown = out_of_range
       /\ raw.t = "str" =>
            /\ \A i \in 1..4 : C9_AliasOf(word, i) => shown = <<C9_Letters[i]>>
            /\ ((\A i \in 1..4 : ~C9_AliasOf(word, i)) /\ Len(word) > 0) => shown = <<word[1]>>

GearDrawn == Rendered /\ hud.gear_text # None

C10_NumericSignalsFinite ==
    (Rendered /\ ~telemetry.isNone) =>
        /\ signals.speed_mps.t = "num"
        /\ signals.throttle_raw.t = "num"
        /\ signals.steering_angle.t = "num"
        /\ signals.latitude.t \in {"num", "none"}
        /\ signals.longitude.t \in {"num", "none"}

----------------------------------------------------------------------------
(* what a field value means as a boolean: TRUE, FALSE, or "none" when it is    *)
(* absent or not recognised                                                    *)
C11_Meaning(val) ==
    LET word == Lower(Strip(val.s))
    IN CASE val.t = "bool" -> Bool(val.n = 1)
         [] val.t = "num" -> Bool(val.n # 0)
         [] val.t \in {"inf", "ninf", "nan"} -> Bool(TRUE)
         [] val.t = "str" /\ word \in {W_TRUE, <<"1">>, W_YES, W_ON} -> Bool(TRUE)
         [] val.t = "str" /\ word \in {W_FALSE, <<"0">>, W_NO, W_OFF} -> Bool(FALSE)
         [] OTHER -> None

(* the first alias with a meaning decides; without one the default (False) *)
C11_Expected(first, second) ==
    LET a == C11_Meaning(telemetry.data[first])
        b == C11_Meaning(telemetry.data[second])
    IN IF a # None THEN a ELSE IF b # None THEN b ELSE Bool(FALSE)

(* C11: Boolean extraction.  pick_bool returns a native boolean as is, a       *)
(* number as (value != 0), a trimmed string in {true,1,yes,on} as True and in  *)
(* {false,0,no,off} as False in any case, and the default for an unrecognised  *)
(* or absent value; it never raises: each of the three boolean signals of a    *)
(* frame with telemetry is a boolean.                                          *)
C11_BooleanExtraction ==
    (Rendered /\ ~telemetry.isNone) =>
        /\ signals.brake = C11_Expected("brakeApplied", "brake_applied")
        /\ signals.left_blinker = C11_Expected("leftBlinkerOn", "blinker_on_left")
        /\ signals.right_blinker = C11_Expected("rightBlinkerOn", "blinker_on_right")
        /\ {signals.brake.t, signals.left_blinker.t, signals.right_blinker.t} = {"bool"}

(* a padded, mixed-case "on" read as True *)
C11_Witness ==
    /\ Rendered
    /\ telemetry.data["brakeApplied"] = Str(<<" ","O","n"," ">>)
    /\ signals.brake = Bool(TRUE)
    /\ signals.left_blinker = Bool(FALSE)

----------------------------------------------------------------------------
C12_Drawn == DOMAIN hud.boxes
C12_Order == <<"blinker_left", "gear", "brake", "speed", "wheel", "throttle", "blinker_right">>
C12_Mirror == <<"blinker_right", "throttle", "wheel", "speed", "brake", "gear", "blinker_left">>
C12_BandLeft == (width - 520) \div 2
C12_Centre == C12_BandLeft + 260
(* left edge of each box, relative to the centre of the speed block *)
C12_Offset == <<-218, -168, -118, -60, 76, 126, 176>>

(* C12: Layout.  On every canvas width and for every record, each element a   *)
(* frame draws sits at a position fixed by the width alone: the speed block   *)
(* is centred in the 520-wide band, the order left to right is left blinker,  *)
(* gear, brake, speed block, wheel, throttle, right blinker, the two groups   *)
(* mirror each other about the speed block's centre, adjacent chips are 8 px  *)
(* apart, each group is 16 px from the speed block, and no two boxes overlap  *)
(* or touch.                                                                  *)
C12_Layout ==
    Rendered =>
      \A i \in 1..7 :
        C12_Order[i] \in C12_Drawn =>
          LET a == hud.boxes[C12_Order[i]]
          IN /\ a[1] = C12_Centre + C12_Offset[i]
             /\ a[1] < a[3] /\ a[2] < a[4]
             /\ (i = 4) => (a[1] - C12_BandLeft = (C12_BandLeft + 520) - a[3])
             /\ (C12_Mirror[i] \in C12_Drawn) =>
                  LET m == hud.boxes[C12_Mirror[i]]
                  IN /\ a[1] + m[3] = 2 * C12_Centre
                     /\ a[2] = m[2] /\ a[4] = m[4]
             /\ \A j \in (i + 1)..7 :
                  C12_Order[j] \in C12_Drawn =>
                    LET b == hud.boxes[C12_Order[j]]
                    IN /\ a[3] < b[1]
                       /\ (j = i + 1) =>
                            b[1] - a[3] = (IF 4 \in {i, j} THEN 14 + 2 ELSE 8)

(* all seven boxes drawn on a canvas one pixel narrower than the band: the   *)
(* band starts at -1, the floor of -1/2                                      *)
C12_Witness ==
    /\ Rendered
    /\ width = 519
    /\ C12_Drawn = Elements(C12_Order)
    /\ telemetry.data["gearState"] = Str(<<"D">>)
    /\ hud.boxes["speed"] = <<199, 5, 319, 61>>

----------------------------------------------------------------------------
C13_Steering == <<steer_initialized, steer_target_deg, steer_display_deg, last_target_change_ms>>

(* a frame without a record: the clock moves one frame, the steering stays *)
C13_AbsentFrame ==
    (frame_index' = frame_index + 1 /\ telemetry'.isNone) =>
        /\ elapsed_ms' = elapsed_ms + frame_dt_ms
        /\ C13_Steering' = C13_Steering

(* the first frame with a record after frames without one, its target being  *)
(* the stored one and the clock now more than 500 ms past its last change    *)
C13_Resume ==
    /\ frame_index' = frame_index + 1
    /\ telemetry.isNone /\ ~telemetry'.isNone
    /\ steer_initialized /\ SteerQueried'
    /\ steer_target_deg' = steer_target_deg
    /\ (elapsed_ms + frame_dt_ms) - last_target_change_ms > SnapTicks

(* C13: Frames without telemetry.  A frame whose record is absent advances    *)
(* elapsed_ms by frame_dt_ms and leaves steer_initialized, steer_target_deg,  *)
(* steer_display_deg and last_target_change_ms unchanged, so the display may  *)
(* differ from a target held for more than 500 ms until smooth_steer is next  *)
(* called; the first frame with telemetry after such a run snaps the display  *)
(* to the unchanged target.                                                   *)
C13_AbsentFramesKeepSteering ==
    [][ /\ C13_AbsentFrame
        /\ C13_Resume => /\ steer_display_deg' = steer_target_deg
                         /\ last_target_change_ms' = last_target_change_ms ]_vars

(* after a frame without a record the target has been held for more than     *)
(* 500 ms and the display has not reached it                                 *)
C13_Witness ==
    /\ Rendered
    /\ telemetry.isNone
    /\ steer_initialized
    /\ HeldMs > SnapTicks
    /\ steer_display_deg # steer_target_deg

----------------------------------------------------------------------------
C14_Between(x, a, b) == (a <= x /\ x <= b) \/ (b <= x /\ x <= a)

(* C14: No overshoot.  After every smooth_steer call the returned              *)
(* steer_display_deg lies between the previous steer_display_deg and the       *)
(* current steer_target_deg, inclusive, and so within [-540, 540]; the first   *)
(* call returns the clamped target itself; steer_initialized never returns to  *)
(* False.                                                                      *)
C14_NoOvershoot ==
    [][ /\ steer_initialized => steer_initialized'
        /\ (frame_index' = frame_index + 1 /\ SteerQueried') =>
             /\ steer_initialized'
             /\ hud'.steer_display_angle = Num(steer_display_deg')
             /\ -MaxSteer <= steer_display_deg' /\ steer_display_deg' <= MaxSteer
             /\ steer_initialized =>
                  C14_Between(steer_display_deg', steer_display_deg, steer_target_deg')
             /\ ~steer_initialized =>
                  /\ steer_display_deg' = steer_target_deg'
                  /\ signals'.steering_angle.t = "num" =>
                       steer_display_deg' = ClampInt(signals'.steering_angle.n,
                                                     -MaxSteer, MaxSteer)
      ]_vars

(* an easing step towards a target that changed on this frame: the display    *)
(* has moved off the old target and has not reached the new one               *)
C14_Witness ==
    /\ SteerQueried
    /\ frame_index >= 2
    /\ last_target_change_ms = elapsed_ms
    /\ steer_target_deg = -MaxSteer
    /\ steer_display_deg > -MaxSteer
    /\ steer_display_deg < 100 * Milli

====
